---- MODULE Spec2Model ----
(***************************************************************************)
(* Model of the V1 dump reader (dump/src/reader/v1/mod.rs): opening a dump *)
(* directory, the per-index task cursor (V1IndexReader) and the merge of   *)
(* the per-index task logs into one task stream (V1Reader::next_update,    *)
(* DumpReader::tasks), and DumpReader::indexes.                            *)
(***************************************************************************)
EXTENDS Integers, Sequences, FiniteSets, TLC

\* Capacity of the buffer of BufReader::new (std's DEFAULT_BUF_SIZE), in bytes.
BufCap == 8192

\* Bounds of the model.
ShortLine == 128     \* byte length of an ordinary task line, newline included
MaxEntries == 2      \* entries listed in the dump root
MaxTasks == 3        \* task lines in the whole dump
MaxTime == 2         \* enqueued_at values are 1..MaxTime
MaxDocs == 2         \* lines of a documents.jsonl

VARIABLES
    dump,      \* the snapshot on disk: [metadata, entries]; never mutated
    phase,     \* "closed" before open(), then "open" or "failed";
               \* "panicked" once a call has panicked
    openErr,   \* the error open() returned ("none" if it returned a reader)
    indexes,   \* V1Reader.indexes: sequence of V1IndexReader
    lastRes,   \* the item returned by the last pull of tasks()
    yielded,   \* history: the tasks yielded by tasks() so far, in order
    prev       \* history: indexes as it was before the last pull

vars == <<dump, phase, openErr, indexes, lastRes, yielded, prev>>

Min(a, b) == IF a < b THEN a ELSE b

-----------------------------------------------------------------------------
(* The snapshot on disk *)

\* A line of updates.jsonl: its byte length (newline included), whether the
\* whole line parses as an UpdateStatus, and the enqueued_at it then carries.
\* A task line is an ordinary short line or fills a read buffer exactly; the
\* malformed lines enumerated are short ones.
LineLens == {ShortLine, BufCap}
Times == 1..MaxTime
Line == [len : LineLens, ok : {TRUE}, enqueued_at : Times]
          \cup [len : {ShortLine}, ok : {FALSE}, enqueued_at : {0}]

\* The shape of a directory entry of the dump root: a plain file, or a
\* directory whose name is valid text or not, whose three files can be opened
\* or not, and the numbers of lines of its updates.jsonl (n) and of its
\* documents.jsonl (docs).
Shape == [kind : {"file"}, name_ok : {TRUE}, files_ok : {TRUE}, n : {0}, docs : {0}]
           \cup [kind : {"dir"}, name_ok : {FALSE}, files_ok : {TRUE}, n : {0}, docs : {0}]
           \cup [kind : {"dir"}, name_ok : {TRUE}, files_ok : {FALSE}, n : {0}, docs : {0}]
           \cup [kind : {"dir"}, name_ok : {TRUE}, files_ok : {TRUE}, n : 0..MaxTasks,
                  docs : 0..MaxDocs]

RECURSIVE ShapeLines(_, _)
ShapeLines(sh, k) == IF k = 0 THEN 0 ELSE ShapeLines(sh, k - 1) + sh[k].n

\* The listings enumerated: at most MaxTasks task lines in all, and document
\* lines only in the dumps that hold no task line.
Shapes ==
    UNION {{sh \in [1..m -> Shape] :
                /\ ShapeLines(sh, m) <= MaxTasks
                /\ ShapeLines(sh, m) = 0 \/ \A i \in 1..m : sh[i].docs = 0} : m \in 0..MaxEntries}

\* The entries of the dump root in directory-listing order, entry i holding
\* its share of the lines of flat; the document on line j of entry i is the
\* value <<i, j>>.
MkEntries(sh, flat) ==
    [i \in 1..Len(sh) |->
        [kind |-> sh[i].kind, name_ok |-> sh[i].name_ok, files_ok |-> sh[i].files_ok,
         updates |-> SubSeq(flat, ShapeLines(sh, i - 1) + 1, ShapeLines(sh, i)),
         documents |-> [j \in 1..sh[i].docs |-> <<i, j>>]]]

Metadatas == {"v1", "unsupported", "malformed", "missing"}

-----------------------------------------------------------------------------
(* Values *)

\* Option<UpdateStatus>: uid stands for the task-specific fields of the line
\* the value was parsed from, <<index directory, line number (from 1)>>.
NoUpdate == [some |-> FALSE, enqueued_at |-> 0, uid |-> <<0, 0>>]
SomeUpdate(t, name, k) == [some |-> TRUE, enqueued_at |-> t, uid |-> <<name, k>>]

\* crate::Error. context and line are what the error value says about where a
\* record failed to parse (0: nothing).
NoError == [kind |-> "none", context |-> 0, line |-> 0]
IoFailure == [kind |-> "IoFailure", context |-> 0, line |-> 0]
BadIndexName == [kind |-> "BadIndexName", context |-> 0, line |-> 0]
CorruptMetadata == [kind |-> "CorruptMetadata", context |-> 0, line |-> 0]
UnsupportedVersion == [kind |-> "UnsupportedVersion", context |-> 0, line |-> 0]
\* The conversion of a serde_json::Error by `?`: the error of from_str carries
\* the position inside the one line it was given, never the index or the
\* position of the line in the log.
SerdeError == [kind |-> "ParseError", context |-> 0, line |-> 1]

-----------------------------------------------------------------------------
(* V1IndexReader *)

\* Bytes of the first k lines of a log.
RECURSIVE LineEnd(_, _)
LineEnd(log, k) == IF k = 0 THEN 0 ELSE LineEnd(log, k - 1) + log[k].len

FileLen(log) == LineEnd(log, Len(log))

\* The line holding the byte at offset s < FileLen(log).
LineAt(log, s) == CHOOSE k \in 1..Len(log) : LineEnd(log, k - 1) <= s /\ s < LineEnd(log, k)

\* BufRead::read_until on a fresh BufReader over a file at offset p: the
\* buffer is filled BufCap bytes at a time until the newline at e - 1 is in it;
\* the result is the file offset after the last fill.
RECURSIVE FillUntil(_, _, _)
FillUntil(p, e, total) ==
    LET q == Min(p + BufCap, total)
    IN  IF q >= e THEN q ELSE FillUntil(q, e, total)

\* Mutant of LinesNext: the text returned is that of the line counted from
\* the end of the log.
LinesNextBackwards(log, s) ==
    IF s >= FileLen(log)
    THEN [some |-> FALSE, k |-> 0, whole |-> FALSE, pos |-> s]
    ELSE LET k == LineAt(log, s)
         IN  [some |-> TRUE, k |-> Len(log) + 1 - k, whole |-> (s = LineEnd(log, k - 1)),
              pos |-> FillUntil(s, LineEnd(log, k), FileLen(log))]

\* BufReader::new(&mut tasks).lines().next() with the file at offset s: none
\* at end of file, else the bytes from s to the next newline. The reader is
\* dropped with whatever it buffered beyond that newline, and the file stays
\* at the offset its last fill reached.
LinesNext(log, s) ==
    IF s >= FileLen(log)
    THEN [some |-> FALSE, k |-> 0, whole |-> FALSE, pos |-> s]
    ELSE LET k == LineAt(log, s)
         IN  [some |-> TRUE, k |-> k, whole |-> (s = LineEnd(log, k - 1)),
              pos |-> FillUntil(s, LineEnd(log, k), FileLen(log))]

\* serde_json::from_str of the text read: an UpdateStatus when the text is a
\* whole well-formed line; the tail of a line is no JSON object.
FromStr(log, name, rd) ==
    IF rd.whole /\ log[rd.k].ok
    THEN [ok |-> TRUE, val |-> SomeUpdate(log[rd.k].enqueued_at, name, rd.k), err |-> NoError]
    ELSE [ok |-> FALSE, val |-> NoUpdate, err |-> SerdeError]

\* Mutant of IndexNextUpdate: a failed parse drops the buffered task.
IndexNextUpdateDropOnError(self, log) ==
    LET rd == LinesNext(log, self.pos)
        counted == [self EXCEPT !.reads = @ + 1]
    IN  IF ~rd.some
        THEN [self |-> [counted EXCEPT !.current_update = NoUpdate, !.eof_reads = @ + 1],
              ok |-> TRUE, val |-> self.current_update, err |-> NoError]
        ELSE LET p == FromStr(log, self.name, rd)
             IN  IF ~p.ok
                 THEN [self |-> [counted EXCEPT !.pos = rd.pos, !.current_update = NoUpdate,
                                                !.errs = IF rd.whole THEN @ + 1 ELSE @],
                       ok |-> FALSE, val |-> NoUpdate, err |-> p.err]
                 ELSE [self |-> [counted EXCEPT !.pos = rd.pos, !.current_update = p.val],
                       ok |-> TRUE, val |-> self.current_update, err |-> NoError]

\* Mutant of IndexNextUpdate: at the end of the log the buffered task is
\* returned but stays buffered.
IndexNextUpdateKeepAtEof(self, log) ==
    LET rd == LinesNext(log, self.pos)
        counted == [self EXCEPT !.reads = @ + 1]
    IN  IF ~rd.some
        THEN [self |-> [counted EXCEPT !.eof_reads = @ + 1],
              ok |-> TRUE, val |-> self.current_update, err |-> NoError]
        ELSE LET p == FromStr(log, self.name, rd)
             IN  IF ~p.ok
                 THEN [self |-> [counted EXCEPT !.pos = rd.pos, !.errs = IF rd.whole THEN @ + 1 ELSE @],
                       ok |-> FALSE, val |-> NoUpdate, err |-> p.err]
                 ELSE [self |-> [counted EXCEPT !.pos = rd.pos, !.current_update = p.val],
                       ok |-> TRUE, val |-> self.current_update, err |-> NoError]

\* V1IndexReader::next_update. reads, eof_reads and errs count the calls,
\* those of them that met the end of the log and those that failed on a
\* malformed line read from its first byte (history, not program state).
IndexNextUpdate(self, log) ==
    LET rd == LinesNext(log, self.pos)
        counted == [self EXCEPT !.reads = @ + 1]
    IN  IF ~rd.some
        THEN [self |-> [counted EXCEPT !.current_update = NoUpdate, !.eof_reads = @ + 1],
              ok |-> TRUE, val |-> self.current_update, err |-> NoError]
        ELSE LET p == FromStr(log, self.name, rd)
             IN  IF ~p.ok
                 THEN [self |-> [counted EXCEPT !.pos = rd.pos, !.errs = IF rd.whole THEN @ + 1 ELSE @],
                       ok |-> FALSE, val |-> NoUpdate, err |-> p.err]
                 ELSE [self |-> [counted EXCEPT !.pos = rd.pos, !.current_update = p.val],
                       ok |-> TRUE, val |-> self.current_update, err |-> NoError]

\* V1IndexReader::new: opens the three files and reads ahead once; the result
\* of that first next_update is dropped.
IndexNew(name, entry) ==
    IF ~entry.files_ok
    THEN [ok |-> FALSE, self |-> <<>>, err |-> IoFailure]
    ELSE LET ret == [name |-> name, pos |-> 0, current_update |-> NoUpdate,
                     reads |-> 0, eof_reads |-> 0, errs |-> 0]
         IN  [ok |-> TRUE, self |-> IndexNextUpdate(ret, entry.updates).self, err |-> NoError]

-----------------------------------------------------------------------------
(* V1Reader *)

\* Mutant of OpenEntries: a directory whose name is not valid text is
\* skipped instead of failing the whole open.
RECURSIVE OpenEntriesSkipBadName(_, _, _)
OpenEntriesSkipBadName(entries, i, acc) ==
    IF i > Len(entries)
    THEN [ok |-> TRUE, indexes |-> acc, err |-> NoError]
    ELSE IF entries[i].kind # "dir" \/ ~entries[i].name_ok
    THEN OpenEntriesSkipBadName(entries, i + 1, acc)
    ELSE LET r == IndexNew(i, entries[i])
         IN  IF ~r.ok
             THEN [ok |-> FALSE, indexes |-> <<>>, err |-> r.err]
             ELSE OpenEntriesSkipBadName(entries, i + 1, Append(acc, r.self))

\* The loop of V1Reader::open over the directory listing, from entry i on.
RECURSIVE OpenEntries(_, _, _)
OpenEntries(entries, i, acc) ==
    IF i > Len(entries)
    THEN [ok |-> TRUE, indexes |-> acc, err |-> NoError]
    ELSE IF entries[i].kind # "dir"
    THEN OpenEntries(entries, i + 1, acc)
    ELSE IF ~entries[i].name_ok
    THEN [ok |-> FALSE, indexes |-> <<>>, err |-> BadIndexName]
    ELSE LET r == IndexNew(i, entries[i])
         IN  IF ~r.ok
             THEN [ok |-> FALSE, indexes |-> <<>>, err |-> r.err]
             ELSE OpenEntries(entries, i + 1, Append(acc, r.self))

\* V1Reader::open.
V1ReaderOpen(d) ==
    IF d.metadata = "missing"
    THEN [ok |-> FALSE, indexes |-> <<>>, err |-> IoFailure]
    ELSE IF d.metadata # "v1"
    THEN [ok |-> FALSE, indexes |-> <<>>, err |-> SerdeError]
    ELSE OpenEntries(d.entries, 1, <<>>)

\* Mutant of DispatchOpen: the format version is not inspected.
DispatchOpenNoVersionCheck(d) ==
    IF d.metadata \in {"missing", "malformed"}
    THEN [ok |-> FALSE, indexes |-> <<>>, err |-> CorruptMetadata]
    ELSE V1ReaderOpen(d)

\* The version dispatcher in front of the concrete readers.
DispatchOpen(d) ==
    IF d.metadata \in {"missing", "malformed"}
    THEN [ok |-> FALSE, indexes |-> <<>>, err |-> CorruptMetadata]
    ELSE IF d.metadata # "v1"
    THEN [ok |-> FALSE, indexes |-> <<>>, err |-> UnsupportedVersion]
    ELSE V1ReaderOpen(d)

\* The cursors that hold a buffered task (filter_map).
Buffered(ixs) == {i \in 1..Len(ixs) : ixs[i].current_update.some}

\* Mutant of SelectIndex: max_by_key in place of min_by_key.
SelectIndexMax(ixs) ==
    IF Buffered(ixs) = {}
    THEN 0
    ELSE CHOOSE i \in Buffered(ixs) :
            \A j \in Buffered(ixs) :
                \/ ixs[i].current_update.enqueued_at > ixs[j].current_update.enqueued_at
                \/ /\ ixs[i].current_update.enqueued_at = ixs[j].current_update.enqueued_at
                   /\ i >= j

\* Mutant of SelectIndex: of the cursors tied on the smallest enqueued_at the
\* last one is taken.
SelectIndexLastTied(ixs) ==
    IF Buffered(ixs) = {}
    THEN 0
    ELSE CHOOSE i \in Buffered(ixs) :
            \A j \in Buffered(ixs) :
                \/ ixs[i].current_update.enqueued_at < ixs[j].current_update.enqueued_at
                \/ /\ ixs[i].current_update.enqueued_at = ixs[j].current_update.enqueued_at
                   /\ i >= j

\* min_by_key over the buffered tasks in order of position: the first of the
\* cursors with the smallest enqueued_at; 0 when no cursor holds a task.
SelectIndex(ixs) ==
    IF Buffered(ixs) = {}
    THEN 0
    ELSE CHOOSE i \in Buffered(ixs) :
            \A j \in Buffered(ixs) :
                \/ ixs[i].current_update.enqueued_at < ixs[j].current_update.enqueued_at
                \/ /\ ixs[i].current_update.enqueued_at = ixs[j].current_update.enqueued_at
                   /\ i <= j

\* Mutant of ReaderNextUpdate: every cursor tied with the selected one on the
\* smallest enqueued_at is advanced.
ReaderNextUpdateAdvanceTied(ixs, entries) ==
    LET idx == SelectIndex(ixs)
    IN  IF idx = 0
        THEN [indexes |-> ixs, ok |-> TRUE, val |-> NoUpdate, err |-> NoError]
        ELSE LET r == IndexNextUpdate(ixs[idx], entries[ixs[idx].name].updates)
                 tied(i) == /\ ixs[i].current_update.some
                            /\ ixs[i].current_update.enqueued_at =
                                  ixs[idx].current_update.enqueued_at
             IN  [indexes |-> [i \in 1..Len(ixs) |->
                                  IF tied(i)
                                  THEN IndexNextUpdate(ixs[i], entries[ixs[i].name].updates).self
                                  ELSE ixs[i]],
                  ok |-> r.ok, val |-> r.val, err |-> r.err]

\* Mutant of ReaderNextUpdate: when no cursor holds a task the first cursor
\* is read once more.
ReaderNextUpdateReadExhausted(ixs, entries) ==
    LET idx == SelectIndex(ixs)
        pick == IF idx = 0 /\ Len(ixs) > 0 THEN 1 ELSE idx
    IN  IF pick = 0
        THEN [indexes |-> ixs, ok |-> TRUE, val |-> NoUpdate, err |-> NoError]
        ELSE LET r == IndexNextUpdate(ixs[pick], entries[ixs[pick].name].updates)
             IN  [indexes |-> [ixs EXCEPT ![pick] = r.self],
                  ok |-> r.ok, val |-> r.val, err |-> r.err]

\* V1Reader::next_update.
ReaderNextUpdate(ixs, entries) ==
    LET idx == SelectIndex(ixs)
    IN  IF idx = 0
        THEN [indexes |-> ixs, ok |-> TRUE, val |-> NoUpdate, err |-> NoError]
        ELSE LET r == IndexNextUpdate(ixs[idx], entries[ixs[idx].name].updates)
             IN  [indexes |-> [ixs EXCEPT ![idx] = r.self],
                  ok |-> r.ok, val |-> r.val, err |-> r.err]

\* Mutant of TaskItem: the result is not transposed, so that Ok(None) is an
\* item of the sequence instead of its end.
TaskItemNoTranspose(r) ==
    IF ~r.ok
    THEN [tag |-> "err", task |-> NoUpdate, update_file |-> "None", err |-> r.err]
    ELSE [tag |-> "task", task |-> r.val, update_file |-> "None", err |-> NoError]

\* Mutant of TaskItem: a task is paired with an update file.
TaskItemWithUpdateFile(r) ==
    IF ~r.ok
    THEN [tag |-> "err", task |-> NoUpdate, update_file |-> "None", err |-> r.err]
    ELSE IF r.val.some
    THEN [tag |-> "task", task |-> r.val, update_file |-> "Some", err |-> NoError]
    ELSE [tag |-> "end", task |-> NoUpdate, update_file |-> "None", err |-> NoError]

\* The item the closure of tasks() makes of a result of next_update:
\* transpose, then pair a task with no update file.
TaskItem(r) ==
    IF ~r.ok
    THEN [tag |-> "err", task |-> NoUpdate, update_file |-> "None", err |-> r.err]
    ELSE IF r.val.some
    THEN [tag |-> "task", task |-> r.val, update_file |-> "None", err |-> NoError]
    ELSE [tag |-> "end", task |-> NoUpdate, update_file |-> "None", err |-> NoError]

NoItem == [tag |-> "init", task |-> NoUpdate, update_file |-> "None", err |-> NoError]

\* Mutant of IndexesNames: the readers are yielded in reverse order.
IndexesNamesReversed(ixs) == [i \in 1..Len(ixs) |-> ixs[Len(ixs) + 1 - i].name]

\* The names indexes() yields: one reader per element of self.indexes.
IndexesNames(ixs) == [i \in 1..Len(ixs) |-> ixs[i].name]

\* IndexReader::documents of a reader yielded by indexes(): the body is
\* todo!(), so the call panics whatever the document log holds.
IndexDocuments(self, entry) == [tag |-> "panic", values |-> <<>>]

\* DumpReader::date: none, whatever the metadata holds.
ReaderDate(d) == "None"

\* DumpReader::keys: the empty sequence.
ReaderKeys(d) == <<>>

-----------------------------------------------------------------------------
(* Specification *)

Init ==
    /\ \E sh \in Shapes, md \in Metadatas :
          \E flat \in [1..ShapeLines(sh, Len(sh)) -> Line] :
             \* the logs of a dump that open() rejects are empty ones
             /\ Len(flat) = 0 \/ (md = "v1" /\ \A i \in 1..Len(sh) : sh[i].name_ok /\ sh[i].files_ok)
             /\ dump = [metadata |-> md, entries |-> MkEntries(sh, flat)]
    /\ phase = "closed"
    /\ openErr = NoError
    /\ indexes = <<>>
    /\ lastRes = NoItem
    /\ yielded = <<>>
    /\ prev = <<>>

\* open(): the dispatcher reads the metadata and has the V1 reader open the dump.
Open ==
    /\ phase = "closed"
    /\ LET r == DispatchOpen(dump)
       IN  /\ phase' = IF r.ok THEN "open" ELSE "failed"
           /\ openErr' = r.err
           /\ indexes' = r.indexes
    /\ UNCHANGED <<dump, lastRes, yielded, prev>>

\* One pull of the sequence returned by tasks().
Pull ==
    /\ phase = "open"
    /\ LET r == ReaderNextUpdate(indexes, dump.entries)
           item == TaskItem(r)
       IN  /\ indexes' = r.indexes
           /\ lastRes' = item
           /\ yielded' = IF item.tag = "task" THEN Append(yielded, item.task) ELSE yielded
    /\ prev' = indexes
    /\ UNCHANGED <<dump, phase, openErr>>

\* A call of indexes(), consumed to its end: it yields IndexesNames(indexes)
\* and changes nothing.
Indexes ==
    /\ phase = "open"
    /\ UNCHANGED vars

\* A call of documents() on one of the readers yielded by indexes(). A panic
\* unwinds the caller: the reader and the sequences obtained from it are gone.
Documents ==
    /\ phase = "open"
    /\ \E i \in 1..Len(indexes) :
          LET r == IndexDocuments(indexes[i], dump.entries[indexes[i].name])
          IN  IF r.tag = "panic"
              THEN /\ phase' = "panicked"
                   /\ indexes' = <<>>
                   /\ lastRes' = NoItem
                   /\ yielded' = <<>>
                   /\ prev' = <<>>
                   /\ UNCHANGED <<dump, openErr>>
              ELSE UNCHANGED vars

\* A call of tasks(): the sequence it returns is a closure over the reader
\* with no state of its own, so that a pull of any sequence obtained from the
\* reader is the action Pull. The call itself changes nothing.
Tasks ==
    /\ phase = "open"
    /\ UNCHANGED vars

\* Calls of date() and keys(): they yield ReaderDate(dump) and
\* ReaderKeys(dump) and change nothing.
Date ==
    /\ phase = "open"
    /\ UNCHANGED vars

Keys ==
    /\ phase = "open"
    /\ UNCHANGED vars

Next == Open \/ Pull \/ Indexes \/ Documents \/ Tasks \/ Date \/ Keys

Spec == Init /\ [][Next]_vars

-----------------------------------------------------------------------------
(* Vocabulary of the properties *)

Entries == dump.entries
Dirs == {i \in 1..Len(Entries) : Entries[i].kind = "dir"}
Log(i) == Entries[i].updates

Opened == phase = "open"
Pulled == Opened /\ lastRes.tag # "init"
Finished == Opened /\ lastRes.tag = "end"

\* Every line of every log parses.
WellFormedLogs == \A i \in Dirs : \A k \in 1..Len(Log(i)) : Log(i)[k].ok

\* Every log is sorted ascending by enqueued_at (over the lines that carry one).
SortedLogs ==
    \A i \in Dirs : \A j, k \in 1..Len(Log(i)) :
        (j < k /\ Log(i)[j].ok /\ Log(i)[k].ok)
            => Log(i)[j].enqueued_at <= Log(i)[k].enqueued_at

AllTaskLines == UNION {{<<i, k>> : k \in 1..Len(Log(i))} : i \in Dirs}
YieldedUids == {yielded[j].uid : j \in 1..Len(yielded)}

-----------------------------------------------------------------------------
(* Properties *)

\* C1: when every index's task log is sorted ascending by enqueued_at, the
\* tasks yielded by tasks() so far are non-decreasing in enqueued_at.
C1_YieldedNonDecreasing ==
    SortedLogs =>
        \A j, k \in 1..Len(yielded) :
            j < k => yielded[j].enqueued_at <= yielded[k].enqueued_at

\* C1 witness: the merge of sorted logs has ended after yielding, first, a task
\* of a later-discovered index and then a later task of an earlier one.
C1_Witness ==
    /\ Finished /\ SortedLogs
    /\ Len(yielded) >= 2
    /\ yielded[1].uid[1] > yielded[2].uid[1]
    /\ yielded[1].enqueued_at < yielded[2].enqueued_at

\* C2: with well-formed logs, once tasks() has been consumed to its end the
\* yielded tasks are the task lines of all logs, each exactly once: T pulls
\* succeeded, none lost, none duplicated.
C2_EveryLineYieldedOnce ==
    (Finished /\ WellFormedLogs) =>
        /\ Len(yielded) = Cardinality(AllTaskLines)
        /\ YieldedUids = AllTaskLines

\* The smallest enqueued_at buffered in ixs, the cursors that hold it, and the
\* first of them in discovery order.
MinTime(ixs) ==
    CHOOSE t \in {ixs[i].current_update.enqueued_at : i \in Buffered(ixs)} :
        \A i \in Buffered(ixs) : t <= ixs[i].current_update.enqueued_at
Tied(ixs) == {i \in Buffered(ixs) : ixs[i].current_update.enqueued_at = MinTime(ixs)}
FirstTied(ixs) == CHOOSE i \in Tied(ixs) : \A j \in Tied(ixs) : i <= j

\* The cursors the last pull read from.
Advanced == {i \in 1..Len(indexes) : indexes[i].reads # prev[i].reads}

\* The scenario of two indexes a, b listed in this order: a holds two tasks,
\* b one task enqueued between them (5 and 20, and 10).
ScenarioAB(a, b) ==
    /\ Dirs = {a, b} /\ a < b
    /\ Len(Log(a)) = 2 /\ Len(Log(b)) = 1
    /\ WellFormedLogs
    /\ Log(a)[1].enqueued_at <= Log(b)[1].enqueued_at
    /\ Log(b)[1].enqueued_at < Log(a)[2].enqueued_at

\* C3: a pull made while some cursor holds a task yields a task whose
\* enqueued_at is the smallest one buffered; and in the scenario of a (two
\* tasks) and b (one task between them) tasks() yields a's first task, b's
\* task, a's second task.
C3_MinYieldedAndScenario ==
    /\ (Pulled /\ lastRes.tag = "task") =>
          (Buffered(prev) # {} /\ lastRes.task.enqueued_at = MinTime(prev))
    /\ \A a, b \in Dirs :
          (Finished /\ ScenarioAB(a, b)) =>
              [j \in 1..Len(yielded) |-> yielded[j].uid] = <<(<<a, 1>>), (<<b, 1>>), (<<a, 2>>)>>

\* C4: a pull made while some cursor holds a task reads from exactly one
\* cursor, the first in discovery order of those tied on the smallest
\* buffered enqueued_at, and a task it yields is the one that cursor held.
C4_TieLowestPosition ==
    (Pulled /\ Buffered(prev) # {}) =>
        /\ Advanced = {FirstTied(prev)}
        /\ lastRes.tag = "task" => lastRes.task = prev[FirstTied(prev)].current_update

\* C4 witness: two cursors were tied on the smallest enqueued_at and the pull
\* yielded the task of the first of them.
C4_Witness ==
    /\ Pulled /\ lastRes.tag = "task"
    /\ Cardinality(Tied(prev)) >= 2
    /\ lastRes.task.uid[1] = prev[FirstTied(prev)].name

\* C5: with well-formed logs, once tasks() has been consumed to its end every
\* cursor has read its log ti + 1 times, exactly one of these reads meeting
\* the end of the log; and no pull reads from or changes an exhausted cursor.
C5_ReadsPerCursor ==
    /\ (Finished /\ WellFormedLogs) =>
          \A i \in 1..Len(indexes) :
              /\ indexes[i].reads = Len(Log(indexes[i].name)) + 1
              /\ indexes[i].eof_reads = 1
    /\ Pulled =>
          \A i \in 1..Len(indexes) :
              ~prev[i].current_update.some => indexes[i] = prev[i]

\* C6: when every index's updates.jsonl is empty, no pull of tasks() yields
\* anything but the end of the sequence, while indexes() yields one reader per
\* index directory.
AllLogsEmpty == \A i \in Dirs : Len(Log(i)) = 0
C6_EmptyLogsEmptyTasks ==
    (Opened /\ AllLogsEmpty) =>
        /\ lastRes.tag \in {"init", "end"}
        /\ yielded = <<>>
        /\ Len(IndexesNames(indexes)) = Cardinality(Dirs)

\* C6 witness: two index directories with empty logs, and tasks() pulled.
C6_Witness ==
    /\ Finished /\ AllLogsEmpty
    /\ Cardinality(Dirs) = 2
    /\ Len(IndexesNames(indexes)) = 2

\* The directories whose name is not valid text, and the first of them.
BadNames == {i \in Dirs : ~Entries[i].name_ok}
FirstBadName == CHOOSE i \in BadNames : \A j \in BadNames : i <= j

\* C7 as stated: on a V1 dump with a directory whose name is not valid text,
\* open() fails with BadIndexName and returns no reader.
C7_BadNameAlwaysBadIndexName ==
    (phase # "closed" /\ dump.metadata = "v1" /\ BadNames # {}) =>
        (phase = "failed" /\ indexes = <<>> /\ openErr = BadIndexName)

\* C7 amended: with a directory whose name is not valid text, open() fails
\* and returns no reader; the error is BadIndexName when the metadata is a
\* readable V1 metadata and every directory listed before the first such
\* directory can be opened (else it is the error of the earlier failure).
C7_BadNameFailsOpen ==
    (phase # "closed" /\ BadNames # {}) =>
        /\ phase = "failed" /\ indexes = <<>> /\ openErr # NoError
        /\ (/\ dump.metadata = "v1"
            /\ \A j \in Dirs : j < FirstBadName => Entries[j].files_ok)
              => openErr = BadIndexName

\* C7 witness: open() failed with BadIndexName on a directory listed after a
\* valid index.
C7_Witness ==
    /\ phase = "failed" /\ openErr = BadIndexName
    /\ BadNames # {} /\ FirstBadName = 2
    /\ Entries[1].kind = "dir" /\ Entries[1].files_ok

\* C8: a metadata.json whose format_version is not recognized makes open()
\* fail with UnsupportedVersion, and no reader is constructed.
C8_UnsupportedVersion ==
    (phase # "closed" /\ dump.metadata = "unsupported") =>
        (phase = "failed" /\ openErr = UnsupportedVersion /\ indexes = <<>>)

\* C8 witness: open() has failed on a dump of an unrecognized version that
\* holds an index directory.
C8_Witness ==
    /\ phase = "failed" /\ dump.metadata = "unsupported"
    /\ openErr = UnsupportedVersion
    /\ \E i \in Dirs : Entries[i].name_ok /\ Entries[i].files_ok

\* C9: an error a pull of tasks() returns for a malformed line (read from its
\* first byte) is a ParseError that names the index whose log holds the line
\* and the number of the line in that log (counted from 0 or from 1).
C9_ParseErrorNamesIndexAndLine ==
    \A i \in 1..Len(indexes) :
        LET log == Log(prev[i].name)
            k == LineAt(log, prev[i].pos)
        IN  (/\ Pulled /\ lastRes.tag = "err" /\ i \in Advanced
             /\ prev[i].pos = LineEnd(log, k - 1) /\ ~log[k].ok)
              => /\ lastRes.err.kind = "ParseError"
                 /\ lastRes.err.context = prev[i].name
                 /\ lastRes.err.line \in {k - 1, k}

\* C10: indexes() yields exactly one reader per directory of the dump root,
\* none for the other entries, in the order of the listing, whatever has been
\* pulled from tasks().
C10_IndexesOnePerDirectory ==
    Opened =>
        LET names == IndexesNames(indexes)
        IN  /\ Len(names) = Cardinality(Dirs)
            /\ {names[j] : j \in 1..Len(names)} = Dirs
            /\ \A j, k \in 1..Len(names) : j < k => names[j] < names[k]

\* C10 witness: the listing holds a plain file before an index directory, and
\* tasks have been pulled.
C10_Witness ==
    /\ Opened /\ Len(yielded) >= 1
    /\ Len(Entries) = 2 /\ Entries[1].kind = "file" /\ Entries[2].kind = "dir"
    /\ IndexesNames(indexes) = <<2>>

\* C11: for each reader yielded by indexes(), documents() yields one value per
\* line of the index's document log, in file order, each the value on its line.
C11_DocumentsOnePerLine ==
    \A i \in 1..Len(indexes) :
        Opened =>
            IndexDocuments(indexes[i], Entries[indexes[i].name]) =
                [tag |-> "ok", values |-> Entries[indexes[i].name].documents]

\* C12: for the V1 reader date() is none, keys() yields nothing, and a task
\* item yielded by tasks() carries no update file.
C12_OptionalPartsAbsent ==
    Opened =>
        /\ ReaderDate(dump) = "None"
        /\ ReaderKeys(dump) = <<>>
        /\ lastRes.update_file = "None"
        /\ TaskItem(ReaderNextUpdate(indexes, Entries)).update_file = "None"

\* C12 witness: a task has just been yielded.
C12_Witness ==
    /\ Opened /\ lastRes.tag = "task" /\ lastRes.update_file = "None"
    /\ ReaderDate(dump) = "None" /\ ReaderKeys(dump) = <<>>

\* The number of tasks the cursor at position i has returned to tasks().
Returned(i) == Cardinality({j \in 1..Len(yielded) : yielded[j].uid[1] = indexes[i].name})

\* C13: with well-formed logs, a cursor that has returned k tasks of a log of
\* n lines holds line k (counted from 0) when k < n and is exhausted when
\* k = n.
C13_ReadAheadInvariant ==
    (Opened /\ WellFormedLogs) =>
        \A i \in 1..Len(indexes) :
            LET log == Log(indexes[i].name)
                k == Returned(i)
            IN  IF k < Len(log)
                THEN indexes[i].current_update =
                        SomeUpdate(log[k + 1].enqueued_at, indexes[i].name, k + 1)
                ELSE ~indexes[i].current_update.some

\* C14: right after a successful open() every cursor holds the first line of
\* its task log, and is exhausted only if the log is empty.
C14_CursorsAfterOpen ==
    (Opened /\ lastRes.tag = "init") =>
        \A i \in 1..Len(indexes) :
            LET log == Log(indexes[i].name)
            IN  IF Len(log) = 0
                THEN ~indexes[i].current_update.some
                ELSE /\ indexes[i].current_update.some
                     /\ indexes[i].current_update.uid = <<indexes[i].name, 1>>

\* C15: a cursor whose advance has failed with a parse error is not read by
\* any later pull, and no later pull yields a task of its index.
C15_NoAdvanceAfterError ==
    Pulled => \A i \in Advanced : prev[i].errs = 0

\* C16: a pull changes no cursor but the selected one (and none when no cursor
\* holds a task), whatever it yields: the buffered task and the read position
\* of every other index stay as they were.
C16_PullChangesOnlySelected ==
    Pulled =>
        /\ Len(indexes) = Len(prev)
        /\ \A i \in 1..Len(indexes) : i # SelectIndex(prev) => indexes[i] = prev[i]
        /\ Advanced \subseteq {SelectIndex(prev)}

\* C16 witness: with two indexes, a pull has failed on a malformed line of one
\* log while the other cursor, tied with it, still holds its task.
C16_Witness ==
    /\ Pulled /\ lastRes.tag = "err" /\ Len(indexes) = 2
    /\ \E i, j \in 1..2 :
          /\ i # j
          /\ indexes[i].errs > prev[i].errs
          /\ prev[j].current_update.some
          /\ prev[j].current_update.enqueued_at = prev[i].current_update.enqueued_at
          /\ indexes[j] = prev[j]

\* C17: two tasks of the same index are yielded in the order of their lines
\* in that index's log.
C17_SameIndexInLineOrder ==
    \A j, k \in 1..Len(yielded) :
        (j < k /\ yielded[j].uid[1] = yielded[k].uid[1]) =>
            yielded[j].uid[2] < yielded[k].uid[2]

\* C17 witness: two tasks of one index and a task of another index, all with
\* the same enqueued_at, have been yielded.
C17_Witness ==
    \E j, k, m \in 1..Len(yielded) :
        /\ j < k
        /\ yielded[j].uid[1] = yielded[k].uid[1]
        /\ yielded[m].uid[1] # yielded[j].uid[1]
        /\ yielded[j].enqueued_at = yielded[k].enqueued_at
        /\ yielded[m].enqueued_at = yielded[j].enqueued_at

\* A bound on the pulls a cursor can still be selected for: one per byte of
\* its log not read yet and one for meeting the end of the log.
Remaining(c) ==
    IF c.current_update.some THEN FileLen(Log(c.name)) - c.pos + 1 ELSE 0

RECURSIVE PullsLeft(_, _)
PullsLeft(ixs, n) == IF n = 0 THEN 0 ELSE Remaining(ixs[n]) + PullsLeft(ixs, n - 1)

\* C18: pulling tasks() terminates and its terminal state is absorbing. A
\* pull made while some cursor holds a task does not return none and lowers
\* the natural number PullsLeft, so only finitely many such pulls follow one
\* another; a pull made while no cursor holds a task returns none, yields no
\* task, reads no log and changes no cursor; and once none has been returned
\* every cursor is exhausted, so every later pull is of that kind.
C18_TerminatesAndAbsorbs ==
    /\ Pulled =>
          IF Buffered(prev) = {}
          THEN lastRes.tag = "end" /\ indexes = prev /\ Advanced = {}
          ELSE /\ lastRes.tag # "end"
               /\ PullsLeft(indexes, Len(indexes)) < PullsLeft(prev, Len(prev))
    /\ Finished =>
          /\ Buffered(indexes) = {}
          /\ PullsLeft(indexes, Len(indexes)) = 0
          /\ TaskItem(ReaderNextUpdate(indexes, Entries)).tag = "end"
          /\ ReaderNextUpdate(indexes, Entries).indexes = indexes

\* C18 witness: the end of the sequence has been reached over well-formed
\* logs after two tasks, every cursor having met the end of its log once.
C18_Witness ==
    /\ Finished /\ WellFormedLogs /\ Len(yielded) >= 2
    /\ \A i \in 1..Len(indexes) : indexes[i].eof_reads = 1

\* C19: when a pull reads a malformed line from its first byte, it yields the
\* parse error and no task, the cursor keeps the task it had buffered, which
\* has not been yielded, and the read position is past the malformed line.
C19_ErrorKeepsBufferedTask ==
    \A i \in 1..Len(indexes) :
        LET log == Log(prev[i].name)
            k == LineAt(log, prev[i].pos)
        IN  (/\ Pulled /\ i \in Advanced
             /\ prev[i].pos < FileLen(log)
             /\ prev[i].pos = LineEnd(log, k - 1) /\ ~log[k].ok)
              => /\ lastRes.tag = "err" /\ lastRes.task = NoUpdate
                 /\ prev[i].current_update.some
                 /\ indexes[i].current_update = prev[i].current_update
                 /\ prev[i].current_update.uid \notin YieldedUids
                 /\ indexes[i].pos >= LineEnd(log, k)
                 /\ indexes[i].pos > prev[i].pos

\* C19 witness: a pull has failed on a malformed second line while the first
\* line of the log stays buffered.
C19_Witness ==
    /\ Pulled /\ lastRes.tag = "err"
    /\ \E i \in Advanced :
          /\ indexes[i].errs = prev[i].errs + 1
          /\ indexes[i].current_update.uid = <<indexes[i].name, 1>>
          /\ indexes[i].pos = FileLen(Log(indexes[i].name))

\* C20: the sequences returned by tasks() have no state of their own, every
\* pull of any of them is a pull on the cursors of the reader: over all pulls
\* no task is yielded twice, and once a pull has returned none a pull of a
\* sequence obtained afterwards returns none as well.
C20_SharedCursorsNoRestart ==
    /\ \A j, k \in 1..Len(yielded) : j # k => yielded[j].uid # yielded[k].uid
    /\ Cardinality(YieldedUids) = Len(yielded)
    /\ YieldedUids \subseteq AllTaskLines
    /\ Finished => ~ReaderNextUpdate(indexes, Entries).val.some

\* C20 witness: tasks of two indexes have been yielded and the end of the
\* sequence returned.
C20_Witness ==
    /\ Finished
    /\ \E j, k \in 1..Len(yielded) : yielded[j].uid[1] # yielded[k].uid[1]

====
